---- MODULE Spec2Model ----
(***************************************************************************)
(* State-machine model of the academic assistant:                          *)
(*   src/src/document_processor.py  DocumentProcessor                      *)
(*   src/src/rag_engine.py          RAGEngine                              *)
(*   src/src/synthesis.py           PaperSynthesizer                       *)
(*   src/app.py                     the Streamlit script's button handlers *)
(* Texts are sequences of one-character strings.  A Python call either     *)
(* returns a value or raises: both outcomes are values of the model        *)
(* (Ok / Raise), so that an exception is something a property can see.     *)
(***************************************************************************)
EXTENDS Integers, Sequences, FiniteSets, TLC

VARIABLES
    call,             \* the last call made on a DocumentProcessor: op, input, result
    uploaded_files,   \* app.py: st.file_uploader's list for the last run of the script
    forms,            \* app.py: the widgets author_i / year_i / title_i of that run
    manual_metadata,  \* app.py: st.session_state.manual_metadata
    processed_docs,   \* app.py: st.session_state.processed_docs
    processing_done,  \* app.py: st.session_state.processing_done
    chroma,           \* the persist directory: whether it exists, and its collections
    engine,           \* the RAGEngine object under its callers
    built,            \* whether a create_vectorstore or load_vectorstore of engine succeeded
    rag_op,           \* the last call made on a RAGEngine, and what it did
    rag_engine,       \* app.py: st.session_state.rag_engine
    rag_ready,        \* app.py: st.session_state.rag_ready
    current_embedding, \* app.py: st.session_state.current_embedding
    review,           \* a run of PaperSynthesizer.generate_literature_review
    exported,         \* the last call of PaperSynthesizer.export_to_markdown
    synthesis         \* app.py: the synthesis section of the last run of the script,
                      \* with st.session_state.last_review

appVars == <<uploaded_files, forms, manual_metadata, processed_docs, processing_done>>
ragVars == <<chroma, engine, built>>
sessionVars == <<rag_engine, rag_ready, current_embedding>>
synthVars == <<review, exported, synthesis>>
vars == <<call, appVars, ragVars, rag_op, sessionVars, synthVars>>

(***************************************************************************)
(* Bounds of the model.                                                    *)
(***************************************************************************)
MaxTextLen == 3       \* longest raw text handed to clean_text / a page
MaxPageLen == 1       \* longest text of one page of a PDF
MaxPages == 2         \* most pages of one PDF
MaxFiles == 2         \* most files of one upload
ModelChunkSize == 2   \* chunk_size given to DocumentProcessor(...)
ModelChunkOverlap == 1 \* chunk_overlap given to DocumentProcessor(...)

(***************************************************************************)
(* Python values.                                                          *)
(***************************************************************************)
NL == "\n"
SP == " "
HY == "-"
Char == {"a", SP, NL, HY}

RECURSIVE TextsOfLen(_)
TextsOfLen(n) ==
    IF n = 0 THEN {<<>>}
    ELSE {Append(t, c) : t \in TextsOfLen(n - 1), c \in Char}

TextsUpTo(n) == UNION {TextsOfLen(k) : k \in 0..n}

Texts == TextsUpTo(MaxTextLen)

\* the outcome of a call: a returned value, or a raised exception
Ok(v) == [raised |-> FALSE, value |-> v]
Raise(e, msg) == [raised |-> TRUE, exc |-> e, msg |-> msg]

EmptyDict == [k \in {} |-> 0]

\* dict.get(key, default)
Get(d, key, default) == IF key \in DOMAIN d THEN d[key] ELSE default

\* d1 | d2 : the keys of d2 win
Merge(d1, d2) ==
    [k \in DOMAIN d1 \cup DOMAIN d2 |-> IF k \in DOMAIN d2 THEN d2[k] ELSE d1[k]]

Sub(t, i, j) == IF j < i THEN <<>> ELSE SubSeq(t, i, j)

(***************************************************************************)
(* DocumentProcessor.clean_text, statement by statement.                   *)
(***************************************************************************)
IsSpace(c) == c \in {SP, NL}
IsWord(c) == c \notin {SP, NL, HY}

\* line 137: re.sun(r' +', ' ', text).  The re module has no attribute
\* "sun": evaluating re.sun raises AttributeError before anything is done.
re_sun(text) == Raise("AttributeError", "module 're' has no attribute 'sun'")

\* index of the last character of the run of NL that starts at i
RECURSIVE NlRunEnd(_, _)
NlRunEnd(t, i) == IF i < Len(t) /\ t[i + 1] = NL THEN NlRunEnd(t, i + 1) ELSE i

\* line 140: re.sub(r'\n{3,}', '\n\n', text)
RECURSIVE collapse_newlines_from(_, _)
collapse_newlines_from(t, i) ==
    IF i > Len(t) THEN <<>>
    ELSE IF t[i] = NL
         THEN LET e == NlRunEnd(t, i)
                  run == IF e - i + 1 >= 3 THEN <<NL, NL>> ELSE Sub(t, i, e)
              IN run \o collapse_newlines_from(t, e + 1)
         ELSE <<t[i]>> \o collapse_newlines_from(t, i + 1)

collapse_newlines(t) == collapse_newlines_from(t, 1)

\* str.split('\n')
RECURSIVE split_lines_from(_, _, _)
split_lines_from(t, i, cur) ==
    IF i > Len(t) THEN <<cur>>
    ELSE IF t[i] = NL THEN <<cur>> \o split_lines_from(t, i + 1, <<>>)
         ELSE split_lines_from(t, i + 1, Append(cur, t[i]))

split_lines(t) == split_lines_from(t, 1, <<>>)

\* '\n'.join(lines)
RECURSIVE join_lines(_)
join_lines(ls) ==
    IF Len(ls) = 0 THEN <<>>
    ELSE IF Len(ls) = 1 THEN ls[1]
         ELSE ls[1] \o <<NL>> \o join_lines(Tail(ls))

\* str.strip()
RECURSIVE lstrip(_)
lstrip(t) == IF Len(t) > 0 /\ IsSpace(t[1]) THEN lstrip(Tail(t)) ELSE t

RECURSIVE rstrip(_)
rstrip(t) ==
    IF Len(t) > 0 /\ IsSpace(t[Len(t)]) THEN rstrip(Sub(t, 1, Len(t) - 1)) ELSE t

strip(t) == rstrip(lstrip(t))

\* line 143: '\n'.join(line.strip() for line in text.split('\n'))
strip_lines(t) ==
    LET ls == split_lines(t)
    IN join_lines([i \in 1..Len(ls) |-> strip(ls[i])])

\* index of the last character of the run of word characters that starts at i
RECURSIVE WordRunEnd(_, _)
WordRunEnd(t, i) == IF i < Len(t) /\ IsWord(t[i + 1]) THEN WordRunEnd(t, i + 1) ELSE i

\* line 146: re.sub(r'(\w+)-\n(\w+)', r'\1\2', text): leftmost matches that
\* do not overlap, the scan resuming after the second word of a match
RECURSIVE dehyphenate_from(_, _)
dehyphenate_from(t, i) ==
    IF i > Len(t) THEN <<>>
    ELSE IF IsWord(t[i])
         THEN LET e == WordRunEnd(t, i)
              IN IF e + 3 <= Len(t) /\ t[e + 1] = HY /\ t[e + 2] = NL /\ IsWord(t[e + 3])
                 THEN LET e2 == WordRunEnd(t, e + 3)
                      IN Sub(t, i, e) \o Sub(t, e + 3, e2) \o dehyphenate_from(t, e2 + 1)
                 ELSE Sub(t, i, e) \o dehyphenate_from(t, e + 1)
         ELSE <<t[i]>> \o dehyphenate_from(t, i + 1)

dehyphenate(t) == dehyphenate_from(t, 1)

\* lines 140-148: what follows the first statement
clean_text_rest(text) == strip(dehyphenate(strip_lines(collapse_newlines(text))))

\* lines 119-148
clean_text(text) ==
    LET first == re_sun(text)
    IN IF first.raised THEN first ELSE Ok(clean_text_rest(first.value))

(***************************************************************************)
(* PDF sources.  A source is what the caller hands to load_pdf: its Python *)
(* type (kind), whether PyPDFLoader can read the file, and the text of the *)
(* pages PyPDFLoader extracts from it.                                     *)
(***************************************************************************)
SourceKinds == {"bytes", "file", "path", "missing_path", "other"}

PageTexts == TextsUpTo(MaxPageLen)

RECURSIVE PageListsOfLen(_)
PageListsOfLen(n) ==
    IF n = 0 THEN {<<>>}
    ELSE {Append(ps, t) : ps \in PageListsOfLen(n - 1), t \in PageTexts}

PageLists == UNION {PageListsOfLen(k) : k \in 0..MaxPages}

Sources == [kind : SourceKinds, corrupt : BOOLEAN, pages : PageLists]

NoneVal == "None"

\* PyPDFLoader(file_path).load(): one Document per page, or an exception
PyPDFLoader_load(src, file_path) ==
    IF src.corrupt THEN Raise("PdfReadError", "corrupt")
    ELSE Ok([i \in 1..Len(src.pages) |->
                [page_content |-> src.pages[i],
                 metadata |-> [source |-> file_path, page |-> i - 1]]])

\* lines 103-117
_load_from_path(src, file_path) ==
    LET documents == PyPDFLoader_load(src, file_path)
    IN IF documents.raised
       THEN Raise("ValueError", "Erro ao processar PDF:" \o documents.msg)
       ELSE IF Len(documents.value) = 0
            THEN Raise("ValueError", "Erro ao processar PDF:PDF vazio ou nao legivel")
            ELSE documents

\* lines 78-101
_load_from_bytes(src, filename) ==
    LET docs == _load_from_path(src, "tmp.pdf")
    IN IF docs.raised THEN docs
       ELSE Ok([i \in 1..Len(docs.value) |->
                   [docs.value[i] EXCEPT
                       !.metadata = Merge(@, [source_file |-> filename])]])

\* lines 45-75
load_pdf(pdf_source, filename) ==
    CASE pdf_source.kind = "bytes" -> _load_from_bytes(pdf_source, filename)
      [] pdf_source.kind = "file" -> _load_from_bytes(pdf_source, filename)
      [] pdf_source.kind = "missing_path" ->
             Raise("FileNotFoundError", "Arquivo nao encontrado")
      [] pdf_source.kind = "path" -> _load_from_path(pdf_source, "paper.pdf")
      [] OTHER -> Raise("TypeError", "Tipo de entrada nao suportada")

\* line 179: a title candidate is a line longer than this
TitleMinLen == 20
\* line 178: only the first lines of the first page are scanned
TitleScanLines == 10

\* lines 150-182
extract_metadata(documents) ==
    IF Len(documents) = 0 THEN EmptyDict
    ELSE LET lines == split_lines(documents[1].page_content)
             scanned == 1..(IF Len(lines) < TitleScanLines THEN Len(lines) ELSE TitleScanLines)
             hits == {i \in scanned : Len(lines[i]) > TitleMinLen /\ strip(lines[i]) # <<>>}
             base == [total_pages |-> Len(documents),
                      source_file |-> Get(documents[1].metadata, "source_file", "desconhecido")]
         IN IF hits = {} THEN base
            ELSE LET first == CHOOSE i \in hits : \A j \in hits : i <= j
                 IN Merge(base, [possible_title |-> strip(lines[first])])

\* RecursiveCharacterTextSplitter.split_text (lines 38-43), in its last resort,
\* the separator "": windows of chunk_size characters, consecutive windows
\* sharing chunk_overlap characters
RECURSIVE split_text_from(_, _)
split_text_from(t, i) ==
    IF i + ModelChunkSize - 1 >= Len(t) THEN <<Sub(t, i, Len(t))>>
    ELSE <<Sub(t, i, i + ModelChunkSize - 1)>>
             \o split_text_from(t, i + ModelChunkSize - ModelChunkOverlap)

split_text(t) == IF Len(t) = 0 THEN <<>> ELSE split_text_from(t, 1)

\* text_splitter.split_documents (line 205): the chunks of every document, in
\* order, each with a copy of its document's metadata
RECURSIVE text_splitter_split_documents(_)
text_splitter_split_documents(docs) ==
    IF Len(docs) = 0 THEN <<>>
    ELSE LET pieces == split_text(docs[1].page_content)
         IN [i \in 1..Len(pieces) |->
                [page_content |-> pieces[i], metadata |-> docs[1].metadata]]
            \o text_splitter_split_documents(Tail(docs))

\* lines 196-202: the first clean_text that raises ends the loop
RECURSIVE clean_documents(_)
clean_documents(documents) ==
    IF Len(documents) = 0 THEN Ok(<<>>)
    ELSE LET cleaned_content == clean_text(documents[1].page_content)
         IN IF cleaned_content.raised THEN cleaned_content
            ELSE LET rest == clean_documents(Tail(documents))
                 IN IF rest.raised THEN rest
                    ELSE Ok(<<[page_content |-> cleaned_content.value,
                               metadata |-> documents[1].metadata]>> \o rest.value)

\* lines 208-209: chunk.metadata["chunk_index"] = i
add_chunk_index(chunks) ==
    [i \in 1..Len(chunks) |->
        [chunks[i] EXCEPT !.metadata = Merge(@, [chunk_index |-> i - 1])]]

\* lines 184-211
split_documents(documents) ==
    LET cleaned_docs == clean_documents(documents)
    IN IF cleaned_docs.raised THEN cleaned_docs
       ELSE Ok(add_chunk_index(text_splitter_split_documents(cleaned_docs.value)))

RECURSIVE SumLen(_)
SumLen(chunks) ==
    IF Len(chunks) = 0 THEN 0 ELSE Len(chunks[1].page_content) + SumLen(Tail(chunks))

\* lines 254-260: the record of a failure
failure_record(e) ==
    [documents |-> <<>>, metadata |-> EmptyDict, stats |-> EmptyDict,
     success |-> FALSE, error |-> e.msg]

\* lines 213-260.  avg_chunk_size is the quotient sum / count, kept as the pair
process_pdf(pdf_source, filename) ==
    LET raw_documents == load_pdf(pdf_source, filename)
    IN IF raw_documents.raised THEN Ok(failure_record(raw_documents))
       ELSE LET metadata == extract_metadata(raw_documents.value)
                chunks == split_documents(raw_documents.value)
            IN IF chunks.raised THEN Ok(failure_record(chunks))
               ELSE Ok([documents |-> chunks.value,
                        metadata |-> metadata,
                        stats |-> [total_pages |-> Len(raw_documents.value),
                                   total_chunks |-> Len(chunks.value),
                                   avg_chunk_size |->
                                       IF Len(chunks.value) > 0
                                       THEN <<SumLen(chunks.value), Len(chunks.value)>>
                                       ELSE <<0, 1>>],
                        success |-> TRUE,
                        error |-> NoneVal])

(***************************************************************************)
(* app.py, lines 100-217: one run of the script with the button            *)
(* "Processar Documentos" pressed.                                         *)
(***************************************************************************)
FileNames == {"p1.pdf", "p2.pdf"}
Authors == {"", "Silva", "Souza"}
Titles == {"", "T"}
\* st.number_input(min_value=0, max_value=current_year)
Years == {0, 2020}

\* what the uploader holds: a file-like object and its name
UploadPdfs ==
    {[kind |-> "file", corrupt |-> FALSE, pages |-> <<<<"a">>>>],
     [kind |-> "file", corrupt |-> TRUE, pages |-> <<>>]}
Uploads == [name : FileNames, pdf : UploadPdfs]
FormValues == [author : Authors, year : {2020}, title : {""}]

\* lines 143-147: "author if author else None": a None is a missing key,
\* which dict.get and the "if v" of line 175 cannot tell from a None
form_entry(f) ==
    LET a == IF f.author # "" THEN [author |-> f.author] ELSE EmptyDict
        t == IF f.title # "" THEN [title |-> f.title] ELSE EmptyDict
    IN Merge(Merge(a, [year |-> f.year]), t)

\* lines 112-147: the forms are rendered in order, each writing its file's key
RECURSIVE render_forms(_, _, _, _)
render_forms(mm, files, fs, i) ==
    IF i > Len(files) THEN mm
    ELSE render_forms(Merge(mm, [n \in {files[i].name} |-> form_entry(fs[i])]),
                      files, fs, i + 1)

\* Python truth of an override value: "" and 0 are false
Truthy(k, v) == IF k = "year" THEN v # 0 ELSE v # ""

OverrideKeys == {"author", "year", "title"}

\* lines 169-171 and 175: the non-empty overrides of a manual_metadata entry
truthy_overrides(manual_meta) ==
    [k \in {k \in DOMAIN manual_meta \cap OverrideKeys : Truthy(k, manual_meta[k])}
        |-> manual_meta[k]]

\* lines 167-177, which follow the loop of lines 163-165: uploaded_file and
\* result are the loop's last values
merge_overrides(all_results, files, mm) ==
    LET last == Len(files)
        result == all_results[last]
        manual_meta == Get(mm, files[last].name, EmptyDict)
        updates == truthy_overrides(manual_meta)
        with_meta == [result EXCEPT !.metadata = Merge(@, updates)]
        merged == IF result.success
                  THEN [with_meta EXCEPT !.documents =
                           [j \in 1..Len(@) |->
                               [@[j] EXCEPT !.metadata = Merge(@, updates)]]]
                  ELSE with_meta
    IN [all_results EXCEPT ![last] = merged]

\* lines 158-177 and 216-217
process_documents(files, mm) ==
    LET all_results == [i \in 1..Len(files) |->
                           process_pdf(files[i].pdf, files[i].name).value]
    IN merge_overrides(all_results, files, mm)

ProcessDocumentsWith(files, fs) ==
    LET mm == render_forms(manual_metadata, files, fs, 1)
    IN /\ uploaded_files' = files
       /\ forms' = fs
       /\ manual_metadata' = mm
       /\ processed_docs' = process_documents(files, mm)
       /\ processing_done' = TRUE

ProcessDocumentsButton ==
    /\ \E n \in 1..MaxFiles :
         \E files \in [1..n -> Uploads], fs \in [1..n -> FormValues] :
            ProcessDocumentsWith(files, fs)
    /\ UNCHANGED <<synthVars, call, ragVars, rag_op, sessionVars>>

\* the same handler, for one upload
ProcessOneDocument ==
    /\ ProcessDocumentsWith(
           <<[name |-> "p1.pdf",
              pdf |-> [kind |-> "file", corrupt |-> FALSE, pages |-> <<<<"a">>>>]]>>,
           <<[author |-> "Silva", year |-> 2020, title |-> ""]>>)
    /\ UNCHANGED <<synthVars, call, ragVars, rag_op, sessionVars>>

(***************************************************************************)
(* RAGEngine (src/src/rag_engine.py) over a Chroma persist directory.      *)
(* A stored vector remembers the embedding model that produced it and the  *)
(* chunk it stands for; a Chroma handle names its collection and holds the *)
(* embedding function that will embed the queries made through it.         *)
(***************************************************************************)
PyNone == [none |-> TRUE]

\* config.py:26, EMBEDDING_CONFIG["model_name"]
DefaultEmbedding == "sentence-transformers/all-MiniLM-L6-v2"
Models == {DefaultEmbedding, "nomic-ai/nomic-embed-text-v1.5"}

\* rag_engine.py:34, the default of the constructor's collection_name
DefaultCollection == "academic_papers"
CollNames == {DefaultCollection, "papers_minilm"}

\* config.py:38, RETRIEVAL_CONFIG["k"]
RetrievalK == 5

\* the chunk lists handed to create_vectorstore
BuildChunk ==
    [page_content |-> <<"a">>,
     metadata |-> [source_file |-> "p1.pdf", page |-> 0, chunk_index |-> 0,
                   author |-> "Silva", year |-> 2020]]
ChunkLists == {<<>>, <<BuildChunk>>}

\* what can go wrong outside the engine during one call
BuildFaults == {"none", "embeddings", "storage"}
QueryFaults == {"none", "storage", "generation"}

\* lines 29-46; _embeddings_loads is the history of the object: how many
\* times it has constructed HuggingFaceEmbeddings (lines 64-68)
RAGEngine_init(embedding_model, collection_name) ==
    [embedding_model_name |->
         IF embedding_model = "" THEN DefaultEmbedding ELSE embedding_model,
     collection_name |-> collection_name,
     _embeddings |-> PyNone,
     _embeddings_loads |-> 0,
     _llm |-> PyNone,
     _vectorstore |-> PyNone,
     _retriever |-> PyNone]

\* the outcome of an engine method: the engine and the directory after the
\* call, what the call returned or raised, the (query model, vector model)
\* pairs it compared, and whether it called the retrieval and the generation
\* backends
Outcome(e, ch, out, compared, retrieval, generation) ==
    [engine |-> e, chroma |-> ch, out |-> out, compared |-> compared,
     retrieval |-> retrieval, generation |-> generation]

\* the embeddings property without the test of line 58: the model is loaded
\* at every access
embeddings_uncached(e, fault) ==
    IF fault = "embeddings"
    THEN [engine |-> e, out |-> Raise("OSError", "embedding model not available")]
    ELSE LET loaded == [model_name |-> e.embedding_model_name]
         IN [engine |-> [e EXCEPT !._embeddings = loaded,
                                  !._embeddings_loads = @ + 1],
             out |-> Ok(loaded)]

\* lines 52-72: the embeddings property
embeddings(e, fault) ==
    IF e._embeddings # PyNone THEN [engine |-> e, out |-> Ok(e._embeddings)]
    ELSE IF fault = "embeddings"
         THEN [engine |-> e, out |-> Raise("OSError", "embedding model not available")]
         ELSE LET loaded == [model_name |-> e.embedding_model_name]
              IN [engine |-> [e EXCEPT !._embeddings = loaded,
                                       !._embeddings_loads = @ + 1],
                  out |-> Ok(loaded)]

\* lines 74-91: the llm property
llm(e, api_key) ==
    IF e._llm # PyNone THEN [engine |-> e, out |-> Ok(e._llm)]
    ELSE IF ~api_key
         THEN [engine |-> e,
               out |-> Raise("ValueError", "GROQ_API_KEY nao configurada no ambiente")]
         ELSE LET client == [model |-> "llama-3.3-70b-versatile"]
              IN [engine |-> [e EXCEPT !._llm = client], out |-> Ok(client)]

\* chromadb's get_or_create_collection: the directory and the collection are
\* created when missing
get_or_create_collection(ch, coll_name) ==
    [dir_exists |-> TRUE,
     collections |->
         IF coll_name \in DOMAIN ch.collections THEN ch.collections
         ELSE Merge(ch.collections, [c \in {coll_name} |-> {}])]

\* Chroma.from_documents (lines 126-131): open the collection, embed every
\* chunk with the embedding function and add the vectors to the collection
Chroma_from_documents(ch, documents, embedding, coll_name, fault) ==
    LET opened == get_or_create_collection(ch, coll_name)
        vectors == {[embedding |-> embedding.model_name, doc |-> documents[i]] :
                       i \in 1..Len(documents)}
    IN IF fault = "storage"
       THEN [chroma |-> opened, out |-> Raise("ChromaError", "storage failure")]
       ELSE [chroma |-> [opened EXCEPT !.collections[coll_name] = @ \cup vectors],
             out |-> Ok([collection |-> coll_name, embedding_function |-> embedding])]

\* Chroma(persist_directory, embedding_function, collection_name), lines 155-159
Chroma_open(ch, embedding, coll_name, fault) ==
    IF fault = "storage"
    THEN [chroma |-> ch, out |-> Raise("ChromaError", "storage failure")]
    ELSE [chroma |-> get_or_create_collection(ch, coll_name),
          out |-> Ok([collection |-> coll_name, embedding_function |-> embedding])]

\* create_vectorstore with self._vectorstore assigned before the storage call
\* has returned: a failed build leaves a handle behind
create_vectorstore_eager(e, ch, documents, collection_name, fault) ==
    IF Len(documents) = 0
    THEN Outcome(e, ch, Raise("ValueError", "Lista de documentos vazia"), {}, FALSE, FALSE)
    ELSE LET coll_name == IF collection_name # "" THEN collection_name
                          ELSE e.collection_name
             emb == embeddings(e, fault)
         IN IF emb.out.raised THEN Outcome(emb.engine, ch, emb.out, {}, FALSE, FALSE)
            ELSE LET made == Chroma_from_documents(ch, documents, emb.out.value,
                                                   coll_name, fault)
                     handle == [collection |-> coll_name,
                                embedding_function |-> emb.out.value]
                 IN Outcome([emb.engine EXCEPT !._vectorstore = handle],
                            made.chroma, made.out, {}, FALSE, FALSE)

\* lines 93-136
create_vectorstore(e, ch, documents, collection_name, fault) ==
    IF Len(documents) = 0
    THEN Outcome(e, ch, Raise("ValueError", "Lista de documentos vazia"), {}, FALSE, FALSE)
    ELSE LET coll_name == IF collection_name # "" THEN collection_name
                          ELSE e.collection_name
             emb == embeddings(e, fault)
         IN IF emb.out.raised THEN Outcome(emb.engine, ch, emb.out, {}, FALSE, FALSE)
            ELSE LET made == Chroma_from_documents(ch, documents, emb.out.value,
                                                   coll_name, fault)
                 IN IF made.out.raised
                    THEN Outcome(emb.engine, made.chroma, made.out, {}, FALSE, FALSE)
                    ELSE Outcome([emb.engine EXCEPT !._vectorstore = made.out.value],
                                 made.chroma, made.out, {}, FALSE, FALSE)

\* lines 138-164
load_vectorstore(e, ch, collection_name, fault) ==
    IF ~ch.dir_exists
    THEN Outcome(e, ch, Raise("FileNotFoundError", "Banco vetorial nao encontrado"),
                 {}, FALSE, FALSE)
    ELSE LET coll_name == IF collection_name # "" THEN collection_name
                          ELSE e.collection_name
             emb == embeddings(e, fault)
         IN IF emb.out.raised THEN Outcome(emb.engine, ch, emb.out, {}, FALSE, FALSE)
            ELSE LET opened == Chroma_open(ch, emb.out.value, coll_name, fault)
                 IN IF opened.out.raised
                    THEN Outcome(emb.engine, opened.chroma, opened.out, {}, FALSE, FALSE)
                    ELSE Outcome([emb.engine EXCEPT !._vectorstore = opened.out.value],
                                 opened.chroma, opened.out, {}, FALSE, FALSE)

\* lines 166-194
create_retriever(e, ch) ==
    IF e._vectorstore = PyNone
    THEN Outcome(e, ch,
                 Raise("ValueError",
                       "Vectorstore nao inicializado. Chame create_vectorstore() primeiro."),
                 {}, FALSE, FALSE)
    ELSE LET retriever == [vectorstore |-> e._vectorstore, k |-> RetrievalK]
         IN Outcome([e EXCEPT !._retriever = retriever], ch, Ok(retriever),
                    {}, FALSE, FALSE)

\* lines 229-277
create_rag_chain(e, ch, api_key) ==
    IF e._retriever = PyNone
    THEN Outcome(e, ch,
                 Raise("ValueError", "Retriever nao criado. Chame create_retriever() primeiro."),
                 {}, FALSE, FALSE)
    ELSE LET client == llm(e, api_key)
         IN IF client.out.raised THEN Outcome(client.engine, ch, client.out, {}, FALSE, FALSE)
            ELSE Outcome(client.engine, ch, Ok([chain |-> e._retriever]), {}, FALSE, FALSE)

\* a metadata filter is a conjunction of equalities on the keys it names
Matches(doc, filter_dict) ==
    \A key \in DOMAIN filter_dict :
        key \in DOMAIN doc.metadata /\ doc.metadata[key] = filter_dict[key]

\* the vectors a similarity search through a handle looks at: those of the
\* handle's collection that satisfy the filter
Eligible(ch, handle, filter_dict) ==
    {v \in Get(ch.collections, handle.collection, {}) : Matches(v.doc, filter_dict)}

\* the k most similar of a set of vectors; similarity itself is the vector
\* store's business
TopK(vs, k) ==
    IF Cardinality(vs) <= k THEN vs
    ELSE CHOOSE sub \in SUBSET vs : Cardinality(sub) = k

\* a similarity search: the query is embedded with the handle's embedding
\* function and compared with the eligible vectors of the collection
similarity_search(ch, handle, k, filter_dict) ==
    LET cands == Eligible(ch, handle, filter_dict)
    IN [docs |-> {v.doc : v \in TopK(cands, k)},
        compared |-> {<<handle.embedding_function.model_name, v.embedding>> : v \in cands}]

\* lines 299-342 and 403-450: prompt, chain, generation call, result
generate(e, ch, found, api_key, fault, filters) ==
    LET client == llm(e, api_key)
    IN IF client.out.raised
       THEN Outcome(client.engine, ch, client.out, found.compared, TRUE, FALSE)
       ELSE IF fault = "generation"
            THEN Outcome(client.engine, ch, Raise("APIError", "generation failed"),
                         found.compared, TRUE, TRUE)
            ELSE Outcome(client.engine, ch,
                         Ok([answer |-> "generated", sources |-> found.docs,
                             chunks_retrieved |-> Cardinality(found.docs),
                             filters_applied |-> filters]),
                         found.compared, TRUE, TRUE)

\* query without the check of lines 284-285: the retrieval is attempted on
\* whatever self._retriever is
query_unguarded(e, ch, api_key, fault) ==
    IF e._retriever = PyNone
    THEN Outcome(e, ch,
                 Raise("AttributeError", "'NoneType' object has no attribute 'invoke'"),
                 {}, FALSE, FALSE)
    ELSE IF fault = "storage"
         THEN Outcome(e, ch, Raise("ChromaError", "storage failure"), {}, TRUE, FALSE)
         ELSE LET found == similarity_search(ch, e._retriever.vectorstore,
                                             e._retriever.k, EmptyDict)
              IN generate(e, ch, found, api_key, fault, EmptyDict)

\* lines 279-342
query(e, ch, api_key, fault) ==
    IF e._retriever = PyNone
    THEN Outcome(e, ch, Raise("ValueError", "Sistema RAG nao inicializado completamente"),
                 {}, FALSE, FALSE)
    ELSE IF fault = "storage"
         THEN Outcome(e, ch, Raise("ChromaError", "storage failure"), {}, TRUE, FALSE)
         ELSE LET found == similarity_search(ch, e._retriever.vectorstore,
                                             e._retriever.k, EmptyDict)
              IN generate(e, ch, found, api_key, fault, EmptyDict)

\* lines 373-377: "if author:" and "if year:" leave out None, "" and 0
build_filter(author, year) ==
    Merge(IF author # "" THEN [author |-> author] ELSE EmptyDict,
          IF year # 0 THEN [year |-> year] ELSE EmptyDict)

\* lines 344-450
query_with_filters(e, ch, author, year, api_key, fault) ==
    IF e._vectorstore = PyNone
    THEN Outcome(e, ch, Raise("ValueError", "Vectorstore nao inicializado"),
                 {}, FALSE, FALSE)
    ELSE LET filter_dict == build_filter(author, year)
         IN IF filter_dict = EmptyDict /\ e._retriever = PyNone
            THEN Outcome(e, ch,
                         Raise("AttributeError",
                               "'NoneType' object has no attribute 'invoke'"),
                         {}, FALSE, FALSE)
            ELSE IF fault = "storage"
                 THEN Outcome(e, ch, Raise("ChromaError", "storage failure"),
                              {}, TRUE, FALSE)
                 ELSE LET found ==
                              IF filter_dict # EmptyDict
                              THEN similarity_search(ch, e._vectorstore, RetrievalK,
                                                     filter_dict)
                              ELSE similarity_search(ch, e._retriever.vectorstore,
                                                     e._retriever.k, EmptyDict)
                      IN IF found.docs = {}
                         THEN Outcome(e, ch,
                                      Ok([answer |-> "no matching documents",
                                          sources |-> {},
                                          chunks_retrieved |-> 0,
                                          filters_applied |-> filter_dict]),
                                      found.compared, TRUE, FALSE)
                         ELSE generate(e, ch, found, api_key, fault, filter_dict)

(***************************************************************************)
(* Calls on the RAGEngine.                                                 *)
(***************************************************************************)
\* a call's record: the method, its outcome and what the call found before it
Record(op, r, n, existed, args) ==
    [op |-> op, out |-> r.out, compared |-> r.compared, retrieval |-> r.retrieval,
     generation |-> r.generation, n |-> n, existed |-> existed, args |-> args]

Apply(op, r, n, existed, success, args) ==
    /\ engine' = r.engine
    /\ chroma' = r.chroma
    /\ built' = (built \/ (success /\ ~r.out.raised))
    /\ rag_op' = Record(op, r, n, existed, args)
    /\ UNCHANGED <<synthVars, call, appVars, sessionVars>>

CollectionExists(coll_name) ==
    chroma.dir_exists /\ coll_name \in DOMAIN chroma.collections

NewEngine ==
    /\ \E m \in Models \cup {""}, c \in CollNames :
         engine' = RAGEngine_init(m, c)
    /\ built' = FALSE
    /\ rag_op' = Record("init", Outcome(engine', chroma, Ok(PyNone), {}, FALSE, FALSE),
                        0, FALSE, EmptyDict)
    /\ UNCHANGED <<synthVars, call, appVars, chroma, sessionVars>>

CallCreateVectorstore ==
    \E documents \in ChunkLists, c \in CollNames \cup {""}, fault \in BuildFaults :
        Apply("create_vectorstore",
              create_vectorstore(engine, chroma, documents, c, fault),
              Len(documents), FALSE, TRUE, EmptyDict)

CallLoadVectorstore ==
    \E c \in CollNames \cup {""}, fault \in BuildFaults :
        Apply("load_vectorstore", load_vectorstore(engine, chroma, c, fault), 0,
              CollectionExists(IF c # "" THEN c ELSE engine.collection_name), TRUE,
              EmptyDict)

CallCreateRetriever ==
    Apply("create_retriever", create_retriever(engine, chroma), 0, FALSE, FALSE,
          EmptyDict)

CallCreateRagChain ==
    \E api_key \in BOOLEAN :
        Apply("create_rag_chain", create_rag_chain(engine, chroma, api_key), 0,
              FALSE, FALSE, EmptyDict)

CallQuery ==
    \E api_key \in BOOLEAN, fault \in QueryFaults :
        Apply("query", query(engine, chroma, api_key, fault), 0, FALSE, FALSE,
              EmptyDict)

\* the author and year arguments a caller supplies: a missing key is an
\* argument left at its default None; the year field of the application takes
\* every integer from 0 (app.py:126-133)
FilterAuthors == {"Silva", "Souza"}
FilterYears == {0, 2020}
FilterArgs ==
    {Merge(a, y) : a \in {EmptyDict} \cup {[author |-> x] : x \in FilterAuthors},
                   y \in {EmptyDict} \cup {[year |-> x] : x \in FilterYears}}

\* "if author:" and "if year:" take None as they take "" and 0
CallQueryWithFilters ==
    \E args \in FilterArgs, api_key \in BOOLEAN, fault \in QueryFaults :
        Apply("query_with_filters",
              query_with_filters(engine, chroma, Get(args, "author", ""),
                                 Get(args, "year", 0), api_key, fault),
              0, FALSE, FALSE, args)

(***************************************************************************)
(* app.py, lines 228-301: one run of the script with the button            *)
(* "Criar Banco Vetorial" pressed.                                         *)
(***************************************************************************)
\* EMBEDDING_OPTIONS (imported from config at app.py:7): the choices of the
\* sidebar's selectbox, each naming its embedding model
EmbeddingNames == {"MiniLM (Rapido)", "Nomic Embed (Balanceado)", "BGE-M3 (Premium)"}
EMBEDDING_OPTIONS ==
    [n \in EmbeddingNames |->
        [model_name |->
            CASE n = "MiniLM (Rapido)" -> DefaultEmbedding
              [] n = "Nomic Embed (Balanceado)" -> "nomic-ai/nomic-embed-text-v1.5"
              [] OTHER -> "BAAI/bge-m3"]]

\* lines 256-265
embedding_collection_map(selected_embedding_name) ==
    CASE selected_embedding_name = "MiniLM (Rapido)" -> "papers_minilm"
      [] selected_embedding_name = "Nomic Embed (Balanceado)" -> "papers_nomic"
      [] selected_embedding_name = "BGE-M3 (Premium)" -> "papers_bge_m3"
      [] OTHER -> "papers_default"

\* lines 241-244: the chunks of the results that succeeded
RECURSIVE collect_chunks(_)
collect_chunks(results) ==
    IF Len(results) = 0 THEN <<>>
    ELSE (IF results[1].success THEN results[1].documents ELSE <<>>)
             \o collect_chunks(Tail(results))

\* lines 237-301: the session and the directory after the handler
create_vectorstore_button(selected_embedding_name, ch, fault) ==
    LET all_chunks == collect_chunks(processed_docs)
        unchanged == [rag_engine |-> rag_engine, rag_ready |-> rag_ready,
                      current_embedding |-> current_embedding]
    IN IF Len(all_chunks) = 0
       THEN [session |-> unchanged,
             r |-> Outcome(PyNone, ch,
                           Raise("StopException", "Nenhum documento processado com sucesso"),
                           {}, FALSE, FALSE)]
       ELSE LET made == create_vectorstore(
                            RAGEngine_init(
                                EMBEDDING_OPTIONS[selected_embedding_name].model_name,
                                embedding_collection_map(selected_embedding_name)),
                            ch, all_chunks, "", fault)
            IN IF made.out.raised THEN [session |-> unchanged, r |-> made]
               ELSE LET ready == create_retriever(made.engine, made.chroma)
                    IN [session |-> [rag_engine |-> ready.engine, rag_ready |-> TRUE,
                                     current_embedding |-> selected_embedding_name],
                        r |-> ready]

CreateVectorstoreButton ==
    /\ processing_done
    /\ \E selected_embedding_name \in EmbeddingNames, fault \in BuildFaults :
         LET done == create_vectorstore_button(selected_embedding_name, chroma, fault)
         IN /\ rag_engine' = done.session.rag_engine
            /\ rag_ready' = done.session.rag_ready
            /\ current_embedding' = done.session.current_embedding
            /\ chroma' = done.r.chroma
            /\ rag_op' = Record("app_build", done.r, Len(collect_chunks(processed_docs)),
                                FALSE, EmptyDict)
    /\ UNCHANGED <<synthVars, call, appVars, engine, built>>

InitSession ==
    /\ rag_engine = PyNone
    /\ rag_ready = FALSE
    /\ current_embedding = ""

\* the application alone: config.py:15 has created the default directory and
\* no engine has been used
InitIdle ==
    /\ chroma = [dir_exists |-> TRUE, collections |-> EmptyDict]
    /\ engine = RAGEngine_init("", DefaultCollection)
    /\ built = FALSE
    /\ rag_op = Record("init", Outcome(engine, chroma, Ok(PyNone), {}, FALSE, FALSE),
                       0, FALSE, EmptyDict)
    /\ InitSession

\* config.py:15 creates the default directory; a persist_directory of the
\* caller's may not exist yet
InitRag ==
    /\ chroma \in {[dir_exists |-> d, collections |-> EmptyDict] : d \in BOOLEAN}
    /\ engine \in {RAGEngine_init(m, c) : m \in Models, c \in CollNames}
    /\ built = FALSE
    /\ rag_op = Record("init", Outcome(engine, chroma, Ok(PyNone), {}, FALSE, FALSE),
                       0, FALSE, EmptyDict)
    /\ InitSession

(***************************************************************************)
(* src/src/synthesis.py: PaperSynthesizer.  A text the code builds from    *)
(* literals is a sequence whose elements are the literals and the          *)
(* characters of the texts put between them; what is sent to the           *)
(* generation backend is a record of the values formatted into the prompt. *)
(***************************************************************************)
MaxPapers == 3        \* most papers of one literature review

\* synthesis.py:55, max_chars of the text sent for one paper
SummarizeMaxChars == 10000

\* "[...texto truncado...]"
TruncationMark ==
    <<"[", ".", ".", ".", "t", "e", "x", "t", "o", " ", "t", "r", "u", "n", "c",
      "a", "d", "o", ".", ".", ".", "]">>

\* str.rfind('\n\n'): the highest 0-based index of the pair, or -1
rfind_paragraph(text) ==
    LET hits == {i \in 0..(Len(text) - 2) : text[i + 1] = NL /\ text[i + 2] = NL}
    IN IF hits = {} THEN -1 ELSE CHOOSE i \in hits : \A j \in hits : j <= i

\* lines 23-36; last_paragraph > max_chars * 0.8 in tenths
_truncate_text(text, max_chars) ==
    IF Len(text) <= max_chars THEN text
    ELSE LET truncated == Sub(text, 1, max_chars)
             last_paragraph == rfind_paragraph(truncated)
         IN IF 10 * last_paragraph > 8 * max_chars
            THEN Sub(truncated, 1, last_paragraph) \o <<NL, NL>> \o TruncationMark
            ELSE truncated \o <<NL>> \o TruncationMark

\* line 54: "\n\n".join([doc.page_content for doc in documents])
RECURSIVE join_contents(_)
join_contents(documents) ==
    IF Len(documents) = 0 THEN <<>>
    ELSE IF Len(documents) = 1 THEN documents[1].page_content
    ELSE documents[1].page_content \o <<NL, NL>> \o join_contents(Tail(documents))

\* line 196: len(summary.split()), the number of runs of non-blank characters
word_count(text) ==
    Cardinality({i \in 1..Len(text) :
                    ~IsSpace(text[i]) /\ (i = 1 \/ IsSpace(text[i - 1]))})

\* the four analysis templates; line 168 falls back on "completo"
FocusPrompts == {"metodologia", "resultados", "limitacoes", "completo"}
focus_prompt(focus) == IF focus \in FocusPrompts THEN focus ELSE "completo"

\* str.title() on the focus values of the model
title(s) == IF s = "outro" THEN "Outro" ELSE s

\* the f-string's rendering of an integer: its decimal digits
Digits == <<"0", "1", "2", "3", "4", "5", "6", "7", "8", "9">>
RECURSIVE str_int(_)
str_int(n) ==
    IF n < 10 THEN <<Digits[n + 1]>>
    ELSE str_int(n \div 10) \o <<Digits[(n % 10) + 1]>>

\* lines 53-55 and 168-185: what chain.invoke sends for one paper
summarize_request(documents, focus) ==
    [op |-> "summarize", template |-> focus_prompt(focus),
     text |-> _truncate_text(join_contents(documents), SummarizeMaxChars)]

\* lines 44-51
no_documents_summary(focus) ==
    [summary |-> <<>>, metadata |-> EmptyDict, focus |-> focus, success |-> FALSE,
     error |-> "Nenhum documento fornecido"]

\* lines 190-197
successful_summary(summary, metadata, focus) ==
    [summary |-> summary, metadata |-> metadata, focus |-> focus, success |-> TRUE,
     error |-> NoneVal, word_count |-> word_count(summary)]

\* a generation error recorded as a success
failed_summary_as_success(metadata, focus, e) ==
    [summary |-> <<>>, metadata |-> metadata, focus |-> focus, success |-> TRUE,
     error |-> NoneVal, word_count |-> 0]

\* lines 199-208
failed_summary(metadata, focus, e) ==
    [summary |-> <<>>, metadata |-> metadata, focus |-> focus, success |-> FALSE,
     error |-> e.msg, word_count |-> 0]

\* lines 38-208; reply is what chain.invoke returned or raised
summarize_single_paper(documents, focus, reply) ==
    IF Len(documents) = 0 THEN no_documents_summary(focus)
    ELSE LET metadata == documents[1].metadata
         IN IF reply.raised THEN failed_summary(metadata, focus, reply)
            ELSE successful_summary(reply.value, metadata, focus)

\* every summary taken as valid
valid_summaries_all(summaries) == summaries

\* line 231
valid_summaries(summaries) == SelectSeq(summaries, LAMBDA s : s.success)

\* one valid summary taken as enough
enough_to_compare_one(valid) == Len(valid) >= 1

\* lines 233-237: at least 2 valid summaries
enough_to_compare(valid) == Len(valid) >= 2

\* lines 240-247: one entry for each valid summary, numbered from 1
summaries_text(valid) ==
    [i \in 1..Len(valid) |->
        LET meta == valid[i].metadata
        IN [paper |-> i,
            author |-> Get(meta, "author", "Autor desconhecido"),
            year |-> IF "year" \in DOMAIN meta THEN str_int(meta.year)
                     ELSE <<"Ano desconhecido">>,
            source |-> Get(meta, "source_file", "Documento"),
            summary |-> valid[i].summary]]

\* lines 250-257
compare_focus_title(comparison_focus) ==
    CASE comparison_focus = "metodologia" -> "Metodologias"
      [] comparison_focus = "resultados" -> "Resultados"
      [] comparison_focus = "limitacoes" -> "Limitacoes"
      [] comparison_focus = "completo" -> "Aspectos Gerais"
      [] OTHER -> title(comparison_focus)

\* lines 260-277: what chain.invoke sends for the comparison
compare_request(summaries, comparison_focus) ==
    LET valid == valid_summaries(summaries)
    IN [op |-> "compare", n |-> Len(valid),
        focus_title |-> compare_focus_title(comparison_focus),
        entries |-> summaries_text(valid)]

\* lines 227-237: whether compare_papers reaches its generation call
compare_calls_llm(summaries) ==
    /\ Len(summaries) # 0
    /\ Len(valid_summaries(summaries)) # 0
    /\ enough_to_compare(valid_summaries(summaries))

\* lines 210-284; reply is what chain.invoke returned or raised
compare_papers(summaries, comparison_focus, reply) ==
    IF Len(summaries) = 0 THEN <<"Nenhum resumo disponivel para comparacao.">>
    ELSE IF Len(valid_summaries(summaries)) = 0
    THEN <<"Nenhum resumo valido para comparacao.">>
    ELSE IF ~enough_to_compare(valid_summaries(summaries))
    THEN <<"Necessario pelo menos 2 papers para comparacao.">>
    ELSE IF reply.raised THEN <<"Erro ao gerar comparacao: ", reply.msg>>
    ELSE reply.value

\* every summary counted as successful
count_successful_all(summaries) == Len(summaries)

\* line 319
count_successful(summaries) ==
    Cardinality({i \in 1..Len(summaries) : summaries[i].success})

\* line 330
RECURSIVE total_words(_)
total_words(summaries) ==
    IF Len(summaries) = 0 THEN 0
    ELSE (IF summaries[1].success THEN Get(summaries[1], "word_count", 0) ELSE 0)
             + total_words(Tail(summaries))

\* lines 336-349
literature_review(papers_documents, focus, include_individual, summaries, comparison, duration, now) ==
    Merge([comparative_synthesis |-> comparison,
           total_papers |-> Len(papers_documents),
           successful_analyses |-> count_successful(summaries),
           focus |-> focus,
           duration_seconds |-> duration,
           generated_at |-> now,
           total_words |-> total_words(summaries)],
          IF include_individual THEN [individual_summaries |-> summaries]
          ELSE EmptyDict)

\* lines 361-368
export_focus_title(focus) ==
    CASE focus = "metodologia" -> "Metodologias"
      [] focus = "resultados" -> "Resultados"
      [] focus = "limitacoes" -> "Limitacoes"
      [] focus = "completo" -> "Revisao Completa"
      [] OTHER -> title(focus)

\* lines 370-382: the header block and the synthesis body
export_header(review_result) ==
    <<[part |-> "header",
       focus_title |-> export_focus_title(review_result.focus),
       generated_at |-> review_result.generated_at,
       successful_analyses |-> review_result.successful_analyses,
       total_papers |-> review_result.total_papers,
       duration_seconds |-> review_result.duration_seconds],
      [part |-> "synthesis", text |-> review_result.comparative_synthesis]>>

\* every summary rendered
renders_summary_always(summary) == TRUE

\* line 389
renders_summary(summary) == summary.success

\* lines 388-404: a subsection for each summary rendered, numbered by its
\* position among all the summaries
RECURSIVE export_summaries(_, _)
export_summaries(summaries, i) ==
    IF i > Len(summaries) THEN <<>>
    ELSE (IF renders_summary(summaries[i])
          THEN LET meta == summaries[i].metadata
               IN <<[part |-> "paper", paper |-> i,
                     author |-> Get(meta, "author", "Autor desconhecido"),
                     year |-> IF "year" \in DOMAIN meta THEN str_int(meta.year)
                              ELSE <<"?">>,
                     source |-> Get(meta, "source_file", "Documento"),
                     summary |-> summaries[i].summary]>>
          ELSE <<>>)
         \o export_summaries(summaries, i + 1)

\* lines 351-412
export_to_markdown(review_result) ==
    export_header(review_result)
    \o (IF "individual_summaries" \in DOMAIN review_result
        THEN <<[part |-> "individual_heading"]>>
             \o export_summaries(review_result.individual_summaries, 1)
        ELSE <<>>)
    \o <<[part |-> "footer"]>>

(***************************************************************************)
(* One run of generate_literature_review, a call of the generation backend *)
(* at a time, and export_to_markdown on the review it returned.            *)
(***************************************************************************)
\* the keys of papers_documents, in insertion order
PaperNames == <<"p1.pdf", "p2.pdf", "p3.pdf", "p4.pdf", "p5.pdf">>

\* the chunk of the k-th paper: the second paper has no author and no year
PaperChunk(k) ==
    [page_content |-> <<"a">>,
     metadata |->
         Merge([source_file |-> PaperNames[k], page |-> 0, chunk_index |-> 0],
               CASE k = 1 -> [author |-> "Silva", year |-> 2020]
                 [] k = 2 -> EmptyDict
                 [] OTHER -> [author |-> "Souza", year |-> 2021])]

\* papers_documents.items(): each paper with no chunk or with one
PaperInputs ==
    UNION {{[i \in 1..n |->
                [name |-> PaperNames[i],
                 documents |-> IF has[i] THEN <<PaperChunk(i)>> ELSE <<>>]] :
               has \in [1..n -> BOOLEAN]} : n \in 0..MaxPapers}

Focuses == {"completo", "outro"}

\* what the generation backend answers: a text, an error, or nothing ever
LlmTexts == {<<"a">>, <<"a", SP, "a">>}
GenerationError == Raise("APIError", "generation failed")
SummarizeReplies == {Ok(t) : t \in LlmTexts} \cup {GenerationError}
CompareReplies == {Ok(<<"a">>), GenerationError}
Hang == [hang |-> TRUE]

\* datetime.now() at line 342
Instants == {1, 2}

IdleReview ==
    [pc |-> "idle", papers |-> <<>>, focus |-> "completo",
     include_individual |-> TRUE, summaries |-> <<>>, replies |-> <<>>,
     pending |-> PyNone, calls |-> <<>>, reduce_reply |-> PyNone,
     result |-> PyNone]

InitSynth ==
    /\ review = IdleReview
    /\ exported = PyNone
    \* app.py before the synthesis section has been rendered: last_review is
    \* not in the session
    /\ synthesis = [shown |-> "none", total_papers |-> 0, papers_documents |-> <<>>,
                    last_review |-> PyNone]

\* the loop of lines 314-317 ends one paper early
map_finished_early(papers, summaries) == Len(summaries) + 1 >= Len(papers)

\* lines 314-317: the loop has gone through every item
map_finished(papers, summaries) == Len(summaries) = Len(papers)

\* lines 286-308
StartReview ==
    /\ review.pc \in {"idle", "done"}
    /\ \E papers \in PaperInputs, focus \in Focuses, include_individual \in BOOLEAN :
         review' = [IdleReview EXCEPT !.pc = "init", !.papers = papers,
                                     !.focus = focus,
                                     !.include_individual = include_individual]
    /\ exported' = PyNone
    /\ UNCHANGED <<call, appVars, ragVars, rag_op, sessionVars, synthesis>>

\* lines 310-312
BeginMap ==
    /\ review.pc = "init"
    /\ review' = [review EXCEPT !.pc = "map"]
    /\ UNCHANGED <<call, appVars, ragVars, rag_op, sessionVars, exported, synthesis>>

\* lines 314-316 and 44-185: summarize_single_paper is called on the next
\* paper and returns at once for an empty chunk list, or sends its request
SummarizeCall ==
    /\ review.pc = "map"
    /\ review.pending = PyNone
    /\ ~map_finished(review.papers, review.summaries)
    /\ LET documents == review.papers[Len(review.summaries) + 1].documents
       IN IF Len(documents) = 0
          THEN review' =
                   [review EXCEPT
                       !.summaries =
                           Append(@, summarize_single_paper(documents, review.focus,
                                                            GenerationError)),
                       !.replies = Append(@, [called |-> FALSE])]
          ELSE \E reply \in SummarizeReplies \cup {Hang} :
                   review' =
                       [review EXCEPT
                           !.pending = [reply |-> reply],
                           !.calls = Append(@, summarize_request(documents,
                                                                 review.focus))]
    /\ UNCHANGED <<call, appVars, ragVars, rag_op, sessionVars, exported, synthesis>>

\* lines 185-208 and 317: chain.invoke returns or raises
SummarizeReturn ==
    /\ review.pc = "map"
    /\ review.pending # PyNone
    /\ review.pending.reply # Hang
    /\ LET documents == review.papers[Len(review.summaries) + 1].documents
       IN review' =
              [review EXCEPT
                  !.summaries =
                      Append(@, summarize_single_paper(documents, review.focus,
                                                       review.pending.reply)),
                  !.replies = Append(@, [called |-> TRUE,
                                         reply |-> review.pending.reply]),
                  !.pending = PyNone]
    /\ UNCHANGED <<call, appVars, ragVars, rag_op, sessionVars, exported, synthesis>>

\* lines 327-349: the review the run returns
finished(comparison, now) ==
    literature_review(review.papers, review.focus, review.include_individual,
                      review.summaries, comparison, 0, now)

\* lines 319-324 and 227-277: compare_papers returns a diagnostic at once, or
\* sends its request
ComparePapersCall ==
    /\ review.pc = "map"
    /\ review.pending = PyNone
    /\ map_finished(review.papers, review.summaries)
    /\ IF compare_calls_llm(review.summaries)
       THEN \E reply \in CompareReplies :
                review' =
                    [review EXCEPT
                        !.pc = "reduce",
                        !.pending = [reply |-> reply],
                        !.calls = Append(@, compare_request(review.summaries,
                                                            review.focus))]
       ELSE \E now \in Instants :
                review' =
                    [review EXCEPT
                        !.pc = "done",
                        !.result =
                            finished(compare_papers(review.summaries, review.focus,
                                                    GenerationError), now)]
    /\ UNCHANGED <<call, appVars, ragVars, rag_op, sessionVars, exported, synthesis>>

\* lines 277-284 and 327-349
ComparePapersReturn ==
    /\ review.pc = "reduce"
    /\ \E now \in Instants :
         review' =
             [review EXCEPT
                 !.pc = "done",
                 !.pending = PyNone,
                 !.reduce_reply = review.pending.reply,
                 !.result =
                     finished(compare_papers(review.summaries, review.focus,
                                             review.pending.reply), now)]
    /\ UNCHANGED <<call, appVars, ragVars, rag_op, sessionVars, exported, synthesis>>

\* lines 351-412, called twice on the review the run returned
ExportToMarkdown ==
    /\ review.pc = "done"
    /\ exported' = [review_result |-> review.result,
                    markdown |-> export_to_markdown(review.result),
                    again |-> export_to_markdown(review.result)]
    /\ UNCHANGED <<call, appVars, ragVars, rag_op, sessionVars, review, synthesis>>

(***************************************************************************)
(* app.py, lines 443-619: one run of the script through the synthesis      *)
(* section, with the button "Gerar Revisao de Literatura" pressed when it  *)
(* is drawn.                                                               *)
(***************************************************************************)
\* synthesis.py, lines 314-317: the summaries of the items, in order
RECURSIVE summarize_all(_, _, _)
summarize_all(papers, focus, replies) ==
    IF Len(papers) = 0 THEN <<>>
    ELSE <<summarize_single_paper(papers[1].documents, focus, replies[1])>>
             \o summarize_all(Tail(papers), focus, Tail(replies))

\* synthesis.py, lines 286-349: the whole run, given what the backend answers
generate_literature_review(papers_documents, focus, include_individual, replies, compare_reply, now) ==
    LET summaries == summarize_all(papers_documents, focus, replies)
    IN literature_review(papers_documents, focus, include_individual, summaries,
                         compare_papers(summaries, focus, compare_reply), 0, now)

\* app.py:457: the results counted as ready
total_papers(results) == Len(SelectSeq(results, LAMBDA r : r.success))

\* a dict assignment d[key] = value on the items of d, in insertion order: a
\* key already present keeps its place and takes the new value
dict_set(items, key, value) ==
    IF \E i \in 1..Len(items) : items[i].name = key
    THEN [i \in 1..Len(items) |->
              IF items[i].name = key THEN [name |-> key, documents |-> value]
              ELSE items[i]]
    ELSE Append(items, [name |-> key, documents |-> value])

\* app.py, lines 498-502: the chunks of the successful results, keyed by the
\* source_file of their metadata
RECURSIVE papers_documents_from(_, _)
papers_documents_from(results, items) ==
    IF Len(results) = 0 THEN items
    ELSE papers_documents_from(
             Tail(results),
             IF results[1].success
             THEN dict_set(items, results[1].metadata.source_file,
                           results[1].documents)
             ELSE items)

\* lines 443-547 and 615-616: what the section shows and what it leaves in the
\* session
synthesis_section(focus, include_individual, api_key, replies, compare_reply, now) ==
    IF ~(rag_ready /\ Len(processed_docs) > 0)
    THEN [session |-> rag_engine,
          page |-> [synthesis EXCEPT !.shown = "hidden", !.total_papers = 0,
                                     !.papers_documents = <<>>]]
    ELSE IF total_papers(processed_docs) < 2
    THEN [session |-> rag_engine,
          page |-> [synthesis EXCEPT !.shown = "warning",
                                     !.total_papers = total_papers(processed_docs),
                                     !.papers_documents = <<>>]]
    ELSE LET papers_documents == papers_documents_from(processed_docs, <<>>)
             client == llm(rag_engine, api_key)
         IN IF client.out.raised
            THEN [session |-> client.engine,
                  page |-> [synthesis EXCEPT
                               !.shown = "error",
                               !.total_papers = total_papers(processed_docs),
                               !.papers_documents = papers_documents]]
            ELSE LET result == generate_literature_review(
                                   papers_documents, focus, include_individual,
                                   replies, compare_reply, now)
                 IN [session |-> client.engine,
                     page |-> [shown |-> "review",
                               total_papers |-> total_papers(processed_docs),
                               papers_documents |-> papers_documents,
                               last_review |->
                                   [result |-> result,
                                    markdown |-> export_to_markdown(result),
                                    timestamp |-> now]]]

SynthesisSection ==
    /\ \E focus \in Focuses, include_individual \in BOOLEAN, api_key \in BOOLEAN,
          replies \in [1..MaxFiles -> SummarizeReplies],
          compare_reply \in CompareReplies, now \in Instants :
         LET done == synthesis_section(focus, include_individual, api_key,
                                       replies, compare_reply, now)
         IN /\ synthesis' = done.page
            /\ rag_engine' = done.session
    /\ UNCHANGED <<call, appVars, ragVars, rag_op, rag_ready, current_embedding,
                   review, exported>>

(***************************************************************************)
(* Calls on a DocumentProcessor.                                           *)
(***************************************************************************)
\* the page texts of the documents handed to split_documents
DocTexts == {t \in Texts : \A i \in 1..Len(t) : t[i] \in {"a", SP}}

DocLists ==
    UNION {[1..n -> [page_content : DocTexts, metadata : {[page |-> 0]}]] :
              n \in 0..MaxPages}

CallCleanText ==
    /\ \E t \in Texts :
         LET once == clean_text(t)
         IN call' = [op |-> "clean_text", input |-> t, result |-> once,
                     again |-> IF once.raised THEN once ELSE clean_text(once.value)]
    /\ UNCHANGED <<synthVars, appVars, ragVars, rag_op, sessionVars>>

CallSplitDocuments ==
    /\ \E docs \in DocLists :
         call' = [op |-> "split_documents", input |-> docs,
                  result |-> split_documents(docs)]
    /\ UNCHANGED <<synthVars, appVars, ragVars, rag_op, sessionVars>>

CallProcessPdf ==
    /\ \E src \in Sources :
         call' = [op |-> "process_pdf", input |-> src,
                  result |-> process_pdf(src, "paper.pdf")]
    /\ UNCHANGED <<synthVars, appVars, ragVars, rag_op, sessionVars>>

InitApp ==
    /\ uploaded_files = <<>>
    /\ forms = <<>>
    /\ manual_metadata = EmptyDict
    /\ processed_docs = <<>>
    /\ processing_done = FALSE

InitCall == call = [op |-> "none"]

\* the DocumentProcessor under arbitrary callers
InitProc == InitCall /\ InitApp /\ InitIdle /\ InitSynth
NextProc == CallCleanText \/ CallSplitDocuments \/ CallProcessPdf
SpecProc == InitProc /\ [][NextProc]_vars

\* the upload page of the application
InitUpload == InitCall /\ InitApp /\ InitIdle /\ InitSynth
NextUpload == ProcessDocumentsButton \/ CreateVectorstoreButton \/ SynthesisSection
SpecUpload == InitUpload /\ [][NextUpload]_vars

(***************************************************************************)
(* Claims about the DocumentProcessor and the upload page.                 *)
(***************************************************************************)
\* a source PyPDFLoader reads at least one page from
HasReadablePage(src) ==
    /\ src.kind \in {"bytes", "file", "path"}
    /\ ~src.corrupt
    /\ Len(src.pages) >= 1

\* C1: process_pdf never raises; a record with success=False has empty
\* documents, metadata and stats and an error message; a source with at least
\* one readable page gives success=True and stats.total_chunks = the number of
\* chunks returned.
C1_ProcessPdfContract ==
    call.op = "process_pdf" =>
        /\ ~call.result.raised
        /\ LET r == call.result.value
           IN /\ ~r.success =>
                    /\ r.documents = <<>>
                    /\ r.metadata = EmptyDict
                    /\ r.stats = EmptyDict
                    /\ r.error # NoneVal
              /\ HasReadablePage(call.input) =>
                    /\ r.success
                    /\ r.stats.total_chunks = Len(r.documents)

\* C2: split_documents returns chunks no longer than chunk_size plus the
\* overlap tolerance, and more than one chunk for a text longer than
\* chunk_size.
C2_ChunkLengthBound ==
    call.op = "split_documents" =>
        /\ ~call.result.raised
        /\ \A i \in 1..Len(call.result.value) :
              Len(call.result.value[i].page_content) <= ModelChunkSize + ModelChunkOverlap
        /\ (\E d \in 1..Len(call.input) : Len(call.input[d].page_content) > ModelChunkSize)
              => Len(call.result.value) > 1

\* C3: the chunk_index values of the N chunks split_documents produces for a
\* document are exactly 0..N-1, in text order.
C3_ChunkIndexDense ==
    call.op = "split_documents" =>
        /\ ~call.result.raised
        /\ \A i \in 1..Len(call.result.value) :
              /\ "chunk_index" \in DOMAIN call.result.value[i].metadata
              /\ call.result.value[i].metadata.chunk_index = i - 1

\* C4: clean_text is idempotent: applied to its own result it returns that
\* result.
C4_CleanTextIdempotent ==
    call.op = "clean_text" =>
        /\ ~call.result.raised
        /\ ~call.again.raised
        /\ call.again.value = call.result.value

\* a text has a run of n equal characters c
HasRun(text, c, n) ==
    \E i \in 1..(Len(text) - n + 1) : \A j \in i..(i + n - 1) : text[j] = c

\* a line of a text begins or ends with a blank
HasUntrimmedLine(text) ==
    \E i \in 1..Len(text) :
        /\ text[i] = SP
        /\ \/ i = 1 \/ text[i - 1] = NL
           \/ i = Len(text) \/ text[i + 1] = NL

\* C21: the text clean_text returns has no run of three or more spaces, no
\* run of three or more newlines and no line with leading or trailing
\* whitespace.
C21_CleanTextNormalForm ==
    call.op = "clean_text" =>
        /\ ~call.result.raised
        /\ ~HasRun(call.result.value, SP, 3)
        /\ ~HasRun(call.result.value, NL, 3)
        /\ ~HasUntrimmedLine(call.result.value)

\* the overrides the user typed for the i-th upload of the run
OwnOverrides(i) == truthy_overrides(form_entry(forms[i]))

\* every chunk of the i-th result carries the i-th upload's overrides, and no
\* override key with another value
ChunksCarryOwnOverrides(i) ==
    \A j \in 1..Len(processed_docs[i].documents) :
        LET m == processed_docs[i].documents[j].metadata
        IN \A k \in OverrideKeys :
              IF k \in DOMAIN OwnOverrides(i)
              THEN k \in DOMAIN m /\ m[k] = OwnOverrides(i)[k]
              ELSE k \notin DOMAIN m

ReadableUploads ==
    {i \in 1..Len(uploaded_files) : HasReadablePage(uploaded_files[i].pdf)}

\* the index build of the application was not failed by the vector store
BuildNotFailedByStore ==
    /\ rag_op.op = "app_build"
    /\ rag_op.out.raised => rag_op.out.exc = "StopException"

Init == InitCall /\ InitApp /\ InitRag /\ InitSynth
Next ==
    \/ NewEngine
    \/ CallCreateVectorstore
    \/ CallLoadVectorstore
    \/ CallCreateRetriever
    \/ CallCreateRagChain
    \/ CallQuery
    \/ CallQueryWithFilters
    \/ ProcessOneDocument
    \/ CreateVectorstoreButton
Spec == Init /\ [][Next]_vars

(***************************************************************************)
(* Claims about the RAGEngine and the index page.                          *)
(***************************************************************************)
\* C6: a query embedded with one model is never compared with vectors that
\* another model produced.
C6_NoCrossModelComparison ==
    \A p \in rag_op.compared : p[1] = p[2]

\* C7: the collection a build writes to is a function of the embedding model
\* alone, and builds with different embedding models write to different
\* collections: the vectors of one model are all in one collection, and a
\* collection holds the vectors of one model.
C7_CollectionPerModel ==
    \A c1 \in DOMAIN chroma.collections, c2 \in DOMAIN chroma.collections :
        \A v1 \in chroma.collections[c1], v2 \in chroma.collections[c2] :
            (v1.embedding = v2.embedding) <=> (c1 = c2)

\* C8: create_vectorstore with an empty chunk list raises; a create_vectorstore
\* that raises leaves the engine's vectorstore and retriever as they were; a
\* failed attempt of the application sets neither rag_ready nor rag_engine.
C8_FailedBuildNotReady ==
    [][/\ (rag_op'.op = "create_vectorstore" /\ rag_op'.n = 0) => rag_op'.out.raised
       /\ (rag_op'.op = "create_vectorstore" /\ rag_op'.out.raised) =>
              /\ engine'._vectorstore = engine._vectorstore
              /\ engine'._retriever = engine._retriever
       /\ (rag_op'.op = "app_build" /\ rag_op'.out.raised) =>
              /\ rag_ready' = rag_ready
              /\ rag_engine' = rag_engine]_vars

\* C8 witness: a build with an empty chunk list has failed on an engine that
\* had a vectorstore and a retriever, and it still has them.
C8_Witness ==
    /\ rag_op.op = "create_vectorstore"
    /\ rag_op.n = 0
    /\ rag_op.out.raised
    /\ engine._vectorstore # PyNone
    /\ engine._retriever # PyNone

\* C9: load_vectorstore raises whenever no persisted collection of the
\* requested name exists; it never returns a handle to a collection it created.
C9_LoadMissingFails ==
    (rag_op.op = "load_vectorstore" /\ ~rag_op.existed) => rag_op.out.raised

NeedsIndex == {"create_retriever", "create_rag_chain", "query", "query_with_filters"}

\* C10: on an engine on which no create_vectorstore or load_vectorstore has
\* succeeded, create_retriever, create_rag_chain, query and query_with_filters
\* raise a ValueError with a message, call neither the retrieval nor the
\* generation backend and leave the engine and the directory as they were.
C10_NotReadyRejected ==
    [][(~built /\ rag_op'.op \in NeedsIndex) =>
          /\ rag_op'.out.raised
          /\ rag_op'.out.exc = "ValueError"
          /\ rag_op'.out.msg # ""
          /\ ~rag_op'.retrieval
          /\ ~rag_op'.generation
          /\ engine' = engine
          /\ chroma' = chroma]_vars

\* C10 witness: query_with_filters has been called with no filter on an engine
\* that was never built or loaded.
C10_Witness ==
    /\ ~built
    /\ rag_op.op = "query_with_filters"
    /\ rag_op.out.raised

\* a call of query_with_filters that the vector store did not fail
FilteredQueryServed ==
    /\ rag_op.op = "query_with_filters"
    /\ DOMAIN rag_op.args # {}
    /\ engine._vectorstore # PyNone
    /\ ~(rag_op.out.raised /\ rag_op.out.exc = "ChromaError")

\* C11: query_with_filters called with a filter that no stored chunk
\* satisfies returns sources = [] and chunks_retrieved = 0 with an answer that
\* says no matching documents were found; it raises nothing and does not
\* call the generation backend.
C11_NoMatchEmptyResult ==
    (FilteredQueryServed /\ Eligible(chroma, engine._vectorstore, rag_op.args) = {}) =>
        /\ ~rag_op.out.raised
        /\ rag_op.out.value.sources = {}
        /\ rag_op.out.value.chunks_retrieved = 0
        /\ rag_op.out.value.answer = "no matching documents"
        /\ ~rag_op.generation

\* C12: every chunk in the sources query_with_filters returns has metadata
\* equal to every value the caller supplied, author and year, for every
\* author and every year from 0 up.
C12_SourcesMatchFilter ==
    (FilteredQueryServed /\ ~rag_op.out.raised) =>
        \A d \in rag_op.out.value.sources : Matches(d, rag_op.args)

\* C26: constructing a RAGEngine instantiates no embedding backend; an engine
\* instantiates it at most once, and only in a create_vectorstore given chunks
\* or a load_vectorstore that found its directory.
C26_EmbeddingsLazyOnce ==
    [][/\ rag_op'.op = "init" =>
              engine'._embeddings = PyNone /\ engine'._embeddings_loads = 0
       /\ engine'._embeddings_loads <= 1
       /\ (rag_op'.op # "init" /\ engine'._embeddings_loads # engine._embeddings_loads) =>
              \/ rag_op'.op = "create_vectorstore" /\ rag_op'.n > 0
              \/ rag_op'.op = "load_vectorstore" /\ chroma.dir_exists]_vars

\* C26 witness: a load of an existing collection has succeeded on an engine
\* that already had a retriever, with one instantiation in all.
C26_Witness ==
    /\ rag_op.op = "load_vectorstore"
    /\ ~rag_op.out.raised
    /\ rag_op.existed
    /\ engine._retriever # PyNone
    /\ engine._embeddings_loads = 1

\* C27: the retriever query uses reads the engine's current vectorstore, so
\* that query and query_with_filters search the same collection.
C27_RetrieverFollowsVectorstore ==
    engine._retriever # PyNone => engine._retriever.vectorstore = engine._vectorstore

\* C28: with the vectorstore set, query_with_filters called with no author
\* and no year retrieves through an existing retriever or raises the
\* readiness ValueError.
C28_UnfilteredNeedsRetriever ==
    (/\ rag_op.op = "query_with_filters"
     /\ DOMAIN rag_op.args = {}
     /\ engine._vectorstore # PyNone) =>
        \/ engine._retriever # PyNone /\ rag_op.retrieval
        \/ rag_op.out.raised /\ rag_op.out.exc = "ValueError"

(***************************************************************************)
(* The PaperSynthesizer under arbitrary callers.                           *)
(***************************************************************************)
InitReview == InitCall /\ InitApp /\ InitIdle /\ InitSynth
RunReview ==
    \/ BeginMap
    \/ SummarizeCall
    \/ SummarizeReturn
    \/ ComparePapersCall
    \/ ComparePapersReturn
NextReview == StartReview \/ RunReview \/ ExportToMarkdown
SpecReview == InitReview /\ [][NextReview]_vars

\* a run that has started keeps executing; the backend may never answer
SpecReviewLive == SpecReview /\ WF_vars(RunReview)

(***************************************************************************)
(* Claims about the PaperSynthesizer.                                      *)
(***************************************************************************)
\* the positions of the run's successful summaries
SuccessfulAt == {i \in 1..Len(review.summaries) : review.summaries[i].success}

\* the position of the j-th successful summary
NthSuccessful(j) ==
    CHOOSE i \in SuccessfulAt : Cardinality({m \in SuccessfulAt : m <= i}) = j

\* the run has sent the request of compare_papers
CompareCalled == \E k \in 1..Len(review.calls) : review.calls[k].op = "compare"

Diagnostics ==
    {<<"Nenhum resumo disponivel para comparacao.">>,
     <<"Nenhum resumo valido para comparacao.">>,
     <<"Necessario pelo menos 2 papers para comparacao.">>}

\* C13: the REDUCE generation call is issued only if at least 2 summaries
\* have success=True; with 0 or 1 successful summaries the run ends with a
\* diagnostic message as its comparison and without a REDUCE generation call.
C13_ReduceNeedsTwo ==
    /\ CompareCalled => Cardinality(SuccessfulAt) >= 2
    /\ (review.pc = "done" /\ Cardinality(SuccessfulAt) < 2) =>
           /\ ~CompareCalled
           /\ review.reduce_reply = PyNone
           /\ review.result.comparative_synthesis \in Diagnostics

\* C13 witness: a run of two papers has ended with exactly one successful
\* summary.
C13_Witness ==
    /\ review.pc = "done"
    /\ Len(review.papers) = 2
    /\ Cardinality(SuccessfulAt) = 1
    /\ review.result.comparative_synthesis =
           <<"Necessario pelo menos 2 papers para comparacao.">>

\* INIT 0, MAP_RUNNING 1, MAP_DONE 2, REDUCE_RUNNING 3, DONE or FAILED 4
PhaseRank(r) ==
    CASE r.pc = "idle" -> 0
      [] r.pc = "init" -> 0
      [] r.pc = "map" ->
             IF Len(r.summaries) = Len(r.papers) /\ r.pending = PyNone THEN 2 ELSE 1
      [] r.pc = "reduce" -> 3
      [] OTHER -> 4

\* C14: within a run the phases follow INIT, MAP_RUNNING, MAP_DONE,
\* REDUCE_RUNNING, DONE: REDUCE starts, and the run ends, only once the
\* summarize call of every input paper has returned, and no summarize call
\* starts once REDUCE has started.
C14_MapBeforeReduce ==
    [][review'.pc # "init" =>
          /\ PhaseRank(review') >= PhaseRank(review)
          /\ (review'.pc \in {"reduce", "done"} /\ review.pc = "map") =>
                 /\ Len(review.summaries) = Len(review.papers)
                 /\ review.pending = PyNone
          /\ (review'.pc = "done" /\ review.pc # "done") =>
                 \/ review.pc = "reduce"
                 \/ review.pc = "map" /\ ~CompareCalled
          /\ review.pc \in {"reduce", "done"} =>
                 /\ review'.summaries = review.summaries
                 /\ \A k \in 1..Len(review'.calls) :
                        review'.calls[k].op = "summarize" => k <= Len(review.calls)
          /\ \A k \in 1..Len(review'.calls) :
                 review'.calls[k].op = "compare" => k = Len(review'.calls)]_vars

\* C14 witness: a run of three papers has sent three summarize requests and
\* then the compare request, and has ended.
C14_Witness ==
    /\ review.pc = "done"
    /\ Len(review.papers) = 3
    /\ Len(review.calls) = 4
    /\ CompareCalled

\* the summarize call of the i-th paper failed
SummarizeFailed(i) ==
    \/ Len(review.papers[i].documents) = 0
    \/ review.replies[i].called /\ review.replies[i].reply.raised

\* C15: once the MAP loop is over there are as many summaries as input
\* papers, the i-th being that of the i-th paper; every paper with chunks had
\* its generation call, whatever happened to the papers before it; a paper
\* with no chunk or with a generation error has success=False and an error
\* string, every other has success=True.
C15_EveryPaperSummarized ==
    review.pc \in {"reduce", "done"} =>
        /\ Len(review.summaries) = Len(review.papers)
        /\ Len(review.replies) = Len(review.papers)
        /\ \A i \in 1..Len(review.papers) :
              LET documents == review.papers[i].documents
                  s == review.summaries[i]
              IN /\ review.replies[i].called = (Len(documents) # 0)
                 /\ Len(documents) # 0 => s.metadata = documents[1].metadata
                 /\ IF SummarizeFailed(i)
                    THEN ~s.success /\ s.error # NoneVal /\ s.error # ""
                    ELSE s.success /\ s.summary = review.replies[i].reply.value

\* C15 witness: of three papers the first had a generation error, the second
\* had no chunk and the third was summarized.
C15_Witness ==
    /\ review.pc = "done"
    /\ Len(review.papers) = 3
    /\ Len(review.papers[1].documents) # 0
    /\ SummarizeFailed(1)
    /\ Len(review.papers[2].documents) = 0
    /\ review.summaries[3].success

\* the words of the summaries at the positions of a set
RECURSIVE SumWords(_)
SumWords(at) ==
    IF at = {} THEN 0
    ELSE LET i == CHOOSE x \in at : TRUE
         IN review.summaries[i].word_count + SumWords(at \ {i})

\* three papers, one with no chunk and two summarized
OneEmptyTwoValid ==
    /\ Len(review.papers) = 3
    /\ Cardinality({i \in 1..3 : Len(review.papers[i].documents) = 0}) = 1
    /\ \A i \in 1..3 : Len(review.papers[i].documents) = 0 \/ ~SummarizeFailed(i)

\* C16: in the review a run returns total_papers is the number of input
\* papers, successful_analyses the number of summaries with success=True and
\* total_words the sum of word_count over the successful summaries; three
\* papers of which one is empty and two valid give 3 and 2.
C16_ReviewCounts ==
    review.pc = "done" =>
        /\ review.result.total_papers = Len(review.papers)
        /\ review.result.successful_analyses = Cardinality(SuccessfulAt)
        /\ review.result.successful_analyses <= review.result.total_papers
        /\ review.result.total_words = SumWords(SuccessfulAt)
        /\ OneEmptyTwoValid =>
               /\ review.result.total_papers = 3
               /\ review.result.successful_analyses = 2

\* C16 witness: the run of three papers, one empty and two valid, has ended
\* with three words in its two summaries.
C16_Witness ==
    /\ review.pc = "done"
    /\ OneEmptyTwoValid
    /\ review.result.total_words = 3

\* the entry of a compare request for a summary
EntryOf(entry, s) ==
    /\ entry.summary = s.summary
    /\ entry.source = s.metadata.source_file
    /\ "author" \in DOMAIN s.metadata => entry.author = s.metadata.author
    /\ "year" \in DOMAIN s.metadata => entry.year = str_int(s.metadata.year)

\* C17: the prompt of compare_papers' generation call has one entry for each
\* successful summary, in input order, with its author, year, source and
\* text, and no entry for a summary whose success is False.
C17_PromptListsSuccessful ==
    \A k \in 1..Len(review.calls) :
        review.calls[k].op = "compare" =>
            /\ review.calls[k].n = Cardinality(SuccessfulAt)
            /\ Len(review.calls[k].entries) = Cardinality(SuccessfulAt)
            /\ \A j \in 1..Len(review.calls[k].entries) :
                  /\ review.calls[k].entries[j].paper = j
                  /\ EntryOf(review.calls[k].entries[j],
                             review.summaries[NthSuccessful(j)])

\* C17 witness: the compare request of a run of three papers whose second
\* summary failed.
C17_Witness ==
    /\ CompareCalled
    /\ Len(review.papers) = 3
    /\ SuccessfulAt = {1, 3}

\* C18: a run that has started always reaches REDUCE or its end, even if the
\* generation call of one paper never returns.
C18_ReviewCompletes ==
    (review.pc = "init") ~> (review.pc \in {"reduce", "done"})

\* the generation call of compare_papers raised
ReduceFailed ==
    /\ review.pc = "done"
    /\ review.reduce_reply # PyNone
    /\ review.reduce_reply.raised

\* a text holds a message
HoldsMessage(text, msg) == \E k \in 1..Len(text) : text[k] = msg

\* C19: when the REDUCE generation call fails the error message is not the
\* review's comparative_synthesis and export_to_markdown does not render it
\* as the synthesis body.
C19_ReduceFailureSurfaced ==
    ReduceFailed =>
        /\ ~HoldsMessage(review.result.comparative_synthesis, review.reduce_reply.msg)
        /\ exported # PyNone =>
               ~HoldsMessage(exported.markdown[2].text, review.reduce_reply.msg)

\* the subsections of a rendering
PaperParts(markdown) == SelectSeq(markdown, LAMBDA part : part.part = "paper")

\* the successful ones of a list of summaries
SuccessfulOf(summaries) == SelectSeq(summaries, LAMBDA s : s.success)

\* header, synthesis body, the subsections and the footer, in that order
Rendering(markdown, r) ==
    /\ Len(markdown) >= 3
    /\ markdown[1].part = "header"
    /\ markdown[1].successful_analyses = r.successful_analyses
    /\ markdown[1].total_papers = r.total_papers
    /\ markdown[2].part = "synthesis"
    /\ markdown[2].text = r.comparative_synthesis
    /\ markdown[Len(markdown)].part = "footer"
    /\ \A k \in 1..Len(markdown) :
          /\ markdown[k].part = "header" => k = 1
          /\ markdown[k].part = "synthesis" => k = 2
          /\ markdown[k].part = "footer" => k = Len(markdown)
    /\ IF "individual_summaries" \in DOMAIN r
       THEN LET ok == SuccessfulOf(r.individual_summaries)
            IN /\ Len(PaperParts(markdown)) = Len(ok)
               /\ \A j \in 1..Len(ok) :
                     /\ PaperParts(markdown)[j].summary = ok[j].summary
                     /\ PaperParts(markdown)[j].source = ok[j].metadata.source_file
       ELSE Len(PaperParts(markdown)) = 0

CompareEntries ==
    LET k == CHOOSE k \in 1..Len(review.calls) : review.calls[k].op = "compare"
    IN review.calls[k].entries

\* C29: the label 'Paper i' denotes the same document in the compare prompt
\* and in the exported report's individual subsections: the paper the prompt
\* numbers i is the paper of the report's subsection 'Paper i'.
C29_PaperLabelsAgree ==
    (/\ exported # PyNone
     /\ CompareCalled
     /\ "individual_summaries" \in DOMAIN exported.review_result) =>
        \A j \in 1..Len(CompareEntries) :
            \E k \in 1..Len(PaperParts(exported.markdown)) :
                /\ PaperParts(exported.markdown)[k].paper = CompareEntries[j].paper
                /\ PaperParts(exported.markdown)[k].source = CompareEntries[j].source

(***************************************************************************)
(* RAGEngine.format_documents (rag_engine.py, lines 196-227) and the text  *)
(* PaperSynthesizer prepares for one paper, under arbitrary arguments.     *)
(***************************************************************************)
MaxRetrieved == 2     \* most chunks handed to format_documents
MaxTruncLen == 11     \* longest text handed to _truncate_text

\* rag_engine.py:218, the characters of a chunk put into the context
ContentCap == 1000

\* n times the character c
Repeat(c, n) == [i \in 1..n |-> c]

\* content cut at the cap with no marker
format_content_cut(page_content) ==
    IF Len(page_content) > ContentCap THEN Sub(page_content, 1, ContentCap)
    ELSE page_content

\* lines 218-220
format_content(page_content) ==
    IF Len(page_content) > ContentCap
    THEN Sub(page_content, 1, ContentCap) \o <<".", ".", ".">>
    ELSE page_content

\* lines 212-224: the header and the content of one chunk
format_block(doc) ==
    [source |-> Get(doc.metadata, "source_file", "desconhecido"),
     page |-> IF "page" \in DOMAIN doc.metadata THEN str_int(doc.metadata.page)
              ELSE <<"?">>,
     chunk_idx |-> IF "chunk_index" \in DOMAIN doc.metadata
                   THEN str_int(doc.metadata.chunk_index) ELSE <<"?">>,
     content |-> format_content(doc.page_content)]

\* lines 196-227: the blocks that "\n\n---\n\n".join puts one after another
format_documents(docs) == [i \in 1..Len(docs) |-> format_block(docs[i])]

\* the chunks a retrieval may return: short, at the cap and over it
RetrievedDocs ==
    {[page_content |-> Repeat("a", n),
      metadata |-> [source_file |-> f, page |-> 1, chunk_index |-> 0]] :
         n \in {1, ContentCap, ContentCap + 1}, f \in {"paper1.pdf", "paper2.pdf"}}
    \cup {[page_content |-> <<"a">>, metadata |-> EmptyDict]}

\* the three calls below are calls of pure functions: each is made on the
\* state no call has been made in
CallFormatDocuments ==
    /\ call.op = "none"
    /\ \E docs \in UNION {[1..n -> RetrievedDocs] : n \in 0..MaxRetrieved} :
         call' = [op |-> "format_documents", input |-> docs,
                  result |-> format_documents(docs)]
    /\ UNCHANGED <<appVars, ragVars, rag_op, sessionVars, synthVars>>

\* the texts and budgets handed to _truncate_text
RECURSIVE ParagraphTexts(_)
ParagraphTexts(n) ==
    IF n = 0 THEN {<<>>}
    ELSE {Append(t, c) : t \in ParagraphTexts(n - 1), c \in {"a", NL}}

TruncBudgets == {5, 10}

CallTruncateText ==
    /\ call.op = "none"
    /\ \E text \in UNION {ParagraphTexts(n) : n \in 0..MaxTruncLen},
          max_chars \in TruncBudgets :
         call' = [op |-> "_truncate_text", input |-> text, max_chars |-> max_chars,
                  result |-> _truncate_text(text, max_chars)]
    /\ UNCHANGED <<appVars, ragVars, rag_op, sessionVars, synthVars>>

\* the chunks of one paper: short ones and ones around the budget
LongChunks ==
    {[page_content |-> Repeat("a", n), metadata |-> [source_file |-> "p1.pdf"]] :
        n \in {1, SummarizeMaxChars - 1, SummarizeMaxChars, SummarizeMaxChars + 1}}

\* lines 53-55 and 185 of synthesis.py: the request summarize_single_paper
\* sends for a paper
CallSummarizeRequest ==
    /\ call.op = "none"
    /\ \E documents \in UNION {[1..n -> LongChunks] : n \in 1..2} :
         call' = [op |-> "summarize_request", input |-> documents,
                  result |-> summarize_request(documents, "completo")]
    /\ UNCHANGED <<appVars, ragVars, rag_op, sessionVars, synthVars>>

InitCalls == InitCall /\ InitApp /\ InitIdle /\ InitSynth
NextCalls == CallFormatDocuments \/ CallTruncateText \/ CallSummarizeRequest
SpecCalls == InitCalls /\ [][NextCalls]_vars

\* C22: format_documents emits one block only for chunks that are identical
\* by source_file and chunk_index.
C22_ContextDeduplicated ==
    call.op = "format_documents" =>
        \A i \in 1..Len(call.input) :
            LET meta == call.input[i].metadata
            IN "source_file" \in DOMAIN meta =>
                   Cardinality({k \in 1..Len(call.result) :
                                   /\ call.result[k].source = meta.source_file
                                   /\ call.result[k].chunk_idx =
                                          str_int(meta.chunk_index)}) <= 1

\* C23: format_documents emits the chunks' blocks in the order of the input
\* list, each with the chunk's source_file, page and chunk_index and the first
\* 1000 characters of its text, followed by '...' exactly when the text is
\* longer than 1000.
C23_BlocksInOrder ==
    call.op = "format_documents" =>
        /\ Len(call.result) = Len(call.input)
        /\ \A i \in 1..Len(call.input) :
              LET doc == call.input[i]
                  block == call.result[i]
                  text == doc.page_content
              IN /\ "source_file" \in DOMAIN doc.metadata =>
                        /\ block.source = doc.metadata.source_file
                        /\ block.page = str_int(doc.metadata.page)
                        /\ block.chunk_idx = str_int(doc.metadata.chunk_index)
                 /\ Len(text) <= 1000 => block.content = text
                 /\ Len(text) > 1000 =>
                        /\ Len(block.content) = 1003
                        /\ \A k \in 1..1000 : block.content[k] = text[k]
                        /\ \A k \in 1001..1003 : block.content[k] = "."

\* C23 witness: two chunks of different papers, the first longer than 1000
\* characters and the second not, have been formatted.
C23_Witness ==
    /\ call.op = "format_documents"
    /\ Len(call.input) = 2
    /\ Len(call.input[1].page_content) > 1000
    /\ Len(call.input[2].page_content) <= 1000
    /\ call.result[1].source # call.result[2].source

\* the result keeps a prefix of the text: the prefix, a break and the mark
Keeps(result, prefix) ==
    \/ result = prefix \o <<NL>> \o TruncationMark
    \/ result = prefix \o <<NL, NL>> \o TruncationMark

\* the position of the last paragraph break inside text[0:B], or -1
LastBreak(text, B) ==
    LET hits == {p \in 0..(B - 2) : text[p + 1] = NL /\ text[p + 2] = NL}
    IN IF hits = {} THEN -1 ELSE CHOOSE p \in hits : \A q \in hits : q <= p

C25_RequestWithinBudget ==
    call.op = "summarize_request" => Len(call.result.text) <= 10000

====
